---------------------------- MODULE Spec2Model ----------------------------
(***************************************************************************)
(* Model of py-task-automation-categorizer (src/main.py).                  *)
(*                                                                         *)
(* A Python str is a sequence of one-character strings.  The tokenizer     *)
(* (the regex split of the mapping build and extract_sub_tasks) is a set   *)
(* of operators computed the way the code computes them; the script        *)
(* itself (schema check, mapping build, tag-vocabulary update, daily task  *)
(* loop) is a state machine.                                               *)
(***************************************************************************)
EXTENDS Integers, Sequences, FiniteSets, TLC

(***************************************************************************)
(* Bounds                                                                  *)
(***************************************************************************)
\* longest task string the tokenizer specification enumerates
MaxLen == 5
\* most taxonomy records one run of the script reads
MaxPages == 2
\* most daily task records one run of the script reads
MaxDaily == 2

(***************************************************************************)
(* Characters and Python str primitives                                    *)
(***************************************************************************)
\* the alphabet of the enumerated task strings: two lower-case letters, an
\* upper-case letter, the space, the comma and both parentheses
Alphabet == {"a", "b", "A", " ", ",", "(", ")"}

RECURSIVE StringsOfLen(_)
StringsOfLen(n) ==
    IF n = 0 THEN {<<>>}
    ELSE {Append(s, c) : s \in StringsOfLen(n - 1), c \in Alphabet}

Strings(n) == UNION {StringsOfLen(k) : k \in 0..n}

SetMin(S) == CHOOSE x \in S : \A y \in S : x <= y
SetMax(S) == CHOOSE x \in S : \A y \in S : x >= y

\* str.lower(), one character
LowerChar(c) ==
    CASE c = "A" -> "a"
      [] c = "B" -> "b"
      [] c = "C" -> "c"
      [] OTHER -> c

\* str.lower()
Lower(s) == [i \in 1..Len(s) |-> LowerChar(s[i])]

\* str.strip(): leading and trailing whitespace removed
Strip(s) ==
    LET keep == {i \in 1..Len(s) : s[i] # " "}
    IN  IF keep = {} THEN <<>> ELSE SubSeq(s, SetMin(keep), SetMax(keep))

\* str.find(c): the 1-based index of the first c, 0 when there is none
\* (Python: 0-based, -1 when there is none)
Find(s, c) ==
    LET at == {i \in 1..Len(s) : s[i] = c}
    IN  IF at = {} THEN 0 ELSE SetMin(at)

\* x in list
InSeq(x, seq) == \E i \in 1..Len(seq) : seq[i] = x

\* the pieces of s between the delimiter positions D, from position from on;
\* empty pieces are kept, as re.split and str.split keep them
RECURSIVE SplitFrom(_, _, _)
SplitFrom(s, D, from) ==
    LET later == {d \in D : d >= from}
    IN  IF later = {} THEN <<SubSeq(s, from, Len(s))>>
        ELSE LET d == SetMin(later)
             IN  <<SubSeq(s, from, d - 1)>> \o SplitFrom(s, D, d + 1)

\* str.split(',')
SplitComma(s) == SplitFrom(s, {i \in 1..Len(s) : s[i] = ","}, 1)

\* [x.strip() for x in seq if x.strip()]
RECURSIVE StripNonEmpty(_)
StripNonEmpty(seq) ==
    IF seq = <<>> THEN <<>>
    ELSE LET x == Strip(Head(seq))
         IN  (IF x = <<>> THEN <<>> ELSE <<x>>) \o StripNonEmpty(Tail(seq))

\* list(dict.fromkeys(seq)): duplicates removed, the first occurrence kept
RECURSIVE DedupFrom(_, _)
DedupFrom(seq, acc) ==
    IF seq = <<>> THEN acc
    ELSE DedupFrom(Tail(seq),
                   IF InSeq(Head(seq), acc) THEN acc ELSE Append(acc, Head(seq)))

Dedup(seq) == DedupFrom(seq, <<>>)

(***************************************************************************)
(* The tokenizer                                                           *)
(***************************************************************************)
\* the lookahead body [^(]*\) matched at position j: some ')' at or after j
\* with no '(' between j and it
LookaheadMatches(s, j) ==
    \E k \in j..Len(s) : s[k] = ")" /\ \A m \in j..(k - 1) : s[m] # "("

\* the positions the pattern ,(?![^(]*\)) matches: a comma at which the
\* negative lookahead succeeds
RegexDelims(s) ==
    {i \in 1..Len(s) : s[i] = "," /\ ~LookaheadMatches(s, i + 1)}

\* re.split(r',(?![^(]*\))', s)
re_split(s) == SplitFrom(s, RegexDelims(s), 1)

\* a plausible slip: the comprehension filters on task.strip() but keeps task
TopLevelSplit_NoStrip(tasks_str) ==
    SelectSeq(re_split(tasks_str), LAMBDA t : Strip(t) # <<>>)

\* task_list of the mapping build: the regex split, each piece stripped,
\* the empty ones dropped
TopLevelSplit(tasks_str) == StripNonEmpty(re_split(tasks_str))

\* a Python value handed to extract_sub_tasks: a str or something else
Str(s) == [isstr |-> TRUE, s |-> s]
NonText == [isstr |-> FALSE, s |-> <<>>]

\* a plausible slip: the order of the two parentheses is not compared
HasParenPair_NoOrder(part) ==
    Find(part, "(") # 0 /\ Find(part, ")") # 0

\* line 145: start != -1 and end != -1 and start < end
HasParenPair(part) ==
    Find(part, "(") # 0 /\ Find(part, ")") # 0 /\ Find(part, "(") < Find(part, ")")

\* one iteration of the loop over parts, sub_tasks being the list so far
ExtractPart(rawpart, sub_tasks) ==
    LET part  == Strip(rawpart)
        start == Find(part, "(")
        end   == Find(part, ")")
    IN  IF part = <<>> THEN sub_tasks
        ELSE IF HasParenPair(part)
        THEN LET paren_content == Strip(SubSeq(part, start + 1, end - 1))
                 extended == sub_tasks \o StripNonEmpty(SplitComma(paren_content))
                 before == Strip(SubSeq(part, 1, start - 1))
                 base == IF before # <<>> THEN before
                         ELSE Strip(SubSeq(part, end + 1, Len(part)))
             IN  IF base # <<>> /\ ~InSeq(base, extended)
                 THEN Append(extended, base) ELSE extended
        ELSE IF ~InSeq(part, sub_tasks) THEN Append(sub_tasks, part)
             ELSE sub_tasks

RECURSIVE ExtractParts(_, _)
ExtractParts(parts, sub_tasks) ==
    IF parts = <<>> THEN sub_tasks
    ELSE ExtractParts(Tail(parts), ExtractPart(Head(parts), sub_tasks))

\* a plausible slip: the closing dict.fromkeys is left out
extract_sub_tasks_NoDedup(task_str) ==
    IF ~task_str.isstr \/ task_str.s = <<>> THEN <<>>
    ELSE ExtractParts(re_split(Strip(Lower(task_str.s))), <<>>)

extract_sub_tasks(task_str) ==
    IF ~task_str.isstr \/ task_str.s = <<>> THEN <<>>
    ELSE Dedup(ExtractParts(re_split(Strip(Lower(task_str.s))), <<>>))

(***************************************************************************)
(* Dictionaries: a Python dict is the sequence of its items in insertion   *)
(* order; assigning to a key that is present keeps the key's position      *)
(***************************************************************************)
DictKeys(d) == {d[i].key : i \in 1..Len(d)}

DictGet(d, k) == d[CHOOSE i \in 1..Len(d) : d[i].key = k].val

\* a plausible slip: a key that is present keeps its value (setdefault)
DictSet_KeepFirst(d, k, v) ==
    IF k \in DictKeys(d) THEN d ELSE Append(d, [key |-> k, val |-> v])

\* d[k] = v
DictSet(d, k, v) ==
    IF k \in DictKeys(d)
    THEN [i \in 1..Len(d) |-> IF d[i].key = k THEN [key |-> k, val |-> v] ELSE d[i]]
    ELSE Append(d, [key |-> k, val |-> v])

(***************************************************************************)
(* The matcher                                                             *)
(***************************************************************************)
\* the threshold 0.8 of find_closest_match, as the fraction 4/5
ThresholdNum == 4
ThresholdDen == 5

\* how far a[i..ahi] and b[j..bhi] agree from their first characters on
RECURSIVE RunLen(_, _, _, _, _, _)
RunLen(a, i, ahi, b, j, bhi) ==
    IF i > ahi \/ j > bhi THEN 0
    ELSE IF a[i] # b[j] THEN 0
    ELSE 1 + RunLen(a, i + 1, ahi, b, j + 1, bhi)

\* SequenceMatcher.find_longest_match without junk: <<i, j, k>> with
\* a[i..i+k-1] = b[j..j+k-1] a longest common block of a[alo..ahi] and
\* b[blo..bhi], of those the one that starts earliest in a, of those the one
\* that starts earliest in b; k = 0 when nothing is common
LongestMatch(a, alo, ahi, b, blo, bhi) ==
    LET k == SetMax({RunLen(a, i, ahi, b, j, bhi) : i \in alo..ahi, j \in blo..bhi})
        i0 == SetMin({i \in alo..ahi :
                        \E j \in blo..bhi : RunLen(a, i, ahi, b, j, bhi) = k})
        j0 == SetMin({j \in blo..bhi : RunLen(a, i0, ahi, b, j, bhi) = k})
    IN  <<i0, j0, k>>

\* SequenceMatcher.get_matching_blocks, summed: the longest match, then the
\* same to its left and to its right
RECURSIVE MatchCount(_, _, _, _, _, _)
MatchCount(a, alo, ahi, b, blo, bhi) ==
    IF alo > ahi \/ blo > bhi THEN 0
    ELSE LET x == LongestMatch(a, alo, ahi, b, blo, bhi)
         IN  IF x[3] = 0 THEN 0
             ELSE x[3] + MatchCount(a, alo, x[1] - 1, b, blo, x[2] - 1)
                       + MatchCount(a, x[1] + x[3], ahi, b, x[2] + x[3], bhi)

\* SequenceMatcher(None, a, b).ratio() = 2.0 * matches / length (1.0 when
\* both are empty), as the fraction <<numerator, denominator>>.  On strings
\* this short the float quotient orders and compares as the fraction does.
Ratio(a, b) ==
    IF Len(a) + Len(b) = 0 THEN <<1, 1>>
    ELSE <<2 * MatchCount(a, 1, Len(a), b, 1, Len(b)), Len(a) + Len(b)>>

RatioLess(r1, r2) == r1[1] * r2[2] < r2[1] * r1[2]

\* a plausible slip: > threshold where the code has >= threshold
AtLeastThreshold_Strict(r) == r[1] * ThresholdDen > ThresholdNum * r[2]

\* ratio >= threshold
AtLeastThreshold(r) == r[1] * ThresholdDen >= ThresholdNum * r[2]

\* the key function of max(): the ratio against x.lower(), 0 for an empty x
MatchKey(task_name_lower, x) ==
    IF x = <<>> THEN <<0, 1>> ELSE Ratio(task_name_lower, Lower(x))

\* a plausible slip: among equal keys the last option wins
RECURSIVE MaxByRatio_LastWins(_, _, _, _)
MaxByRatio_LastWins(task_name_lower, options, best, best_key) ==
    IF options = <<>> THEN best
    ELSE LET key == MatchKey(task_name_lower, Head(options))
         IN  IF ~RatioLess(key, best_key)
             THEN MaxByRatio_LastWins(task_name_lower, Tail(options), Head(options), key)
             ELSE MaxByRatio_LastWins(task_name_lower, Tail(options), best, best_key)

\* max(options, key=...): the first option no later option beats; best is
\* the best option so far and best_key its key
RECURSIVE MaxByRatio(_, _, _, _)
MaxByRatio(task_name_lower, options, best, best_key) ==
    IF options = <<>> THEN best
    ELSE LET key == MatchKey(task_name_lower, Head(options))
         IN  IF RatioLess(best_key, key)
             THEN MaxByRatio(task_name_lower, Tail(options), Head(options), key)
             ELSE MaxByRatio(task_name_lower, Tail(options), best, best_key)

\* None
NoMatch == [found |-> FALSE, key |-> <<>>]

\* options is the sequence of the keys in iteration order
find_closest_match(task_name, options) ==
    IF task_name = <<>> \/ options = <<>> THEN NoMatch
    ELSE LET task_name_lower == Lower(task_name)
             best_match == MaxByRatio(task_name_lower, Tail(options), Head(options),
                                      MatchKey(task_name_lower, Head(options)))
         IN  IF AtLeastThreshold(Ratio(task_name_lower, Lower(best_match)))
             THEN [found |-> TRUE, key |-> best_match]
             ELSE NoMatch

\* sub_task_mapping.keys()
KeySeq(d) == [i \in 1..Len(d) |-> d[i].key]

\* a plausible slip: the fuzzy match is looked up first and preferred
Resolve_FuzzyFirst(task_name, tm, stm) ==
    LET partial_match == find_closest_match(task_name, KeySeq(stm))
    IN  IF partial_match.found
        THEN [exact |-> FALSE, fuzzy_called |-> TRUE, partial |-> partial_match,
              found |-> TRUE, entry |-> DictGet(stm, partial_match.key)]
        ELSE IF Lower(task_name) \in DictKeys(tm)
        THEN [exact |-> TRUE, fuzzy_called |-> TRUE, partial |-> NoMatch,
              found |-> TRUE, entry |-> DictGet(tm, Lower(task_name))]
        ELSE [exact |-> FALSE, fuzzy_called |-> TRUE, partial |-> NoMatch,
              found |-> FALSE, entry |-> <<>>]

\* lines 261-265 and 289-290: the exact lookup, the fuzzy match only when
\* that fails, and the entry the record resolves to
Resolve(task_name, tm, stm) ==
    LET exact_match == Lower(task_name) \in DictKeys(tm)
        partial_match == IF ~exact_match
                         THEN find_closest_match(task_name, KeySeq(stm))
                         ELSE NoMatch
    IN  [exact |-> exact_match,
         fuzzy_called |-> ~exact_match,
         partial |-> partial_match,
         found |-> exact_match \/ (partial_match.found /\ partial_match.key # <<>>),
         entry |-> IF exact_match THEN DictGet(tm, Lower(task_name))
                   ELSE IF partial_match.found /\ partial_match.key # <<>>
                   THEN DictGet(stm, partial_match.key)
                   ELSE <<>>]

(***************************************************************************)
(* Records of the two databases                                            *)
(***************************************************************************)
RequiredProps ==
    {"Category Name", "Tag", "High Priority Tasks", "Medium Priority Tasks",
     "Low Priority Tasks"}

\* the keys of priority_columns, in the order the dict lists them
Priorities == << <<"H", "i", "g", "h">>, <<"M", "e", "d", "i", "u", "m">>, <<"L", "o", "w">> >>

\* the default of get_property(page, "Tag", "Unknown")
Unknown == <<"U", "n", "k", "n", "o", "w", "n">>

\* a title or select property of a page: has = FALSE when the property is
\* absent or holds no value, text its plain_text or option name otherwise
Value(text) == [has |-> TRUE, text |-> text]
NoValue == [has |-> FALSE, text |-> <<>>]

\* get_property for a title property: plain_text stripped, or the default
GetTitle(prop, default) == IF prop.has THEN Strip(prop.text) ELSE default

\* get_property for a select property: the option's name, or the default
GetSelect(prop, default) == IF prop.has THEN prop.text ELSE default

\* a priority column: ok = FALSE when reading its rich_text raises (the
\* property or one of its runs is not a dict, a plain_text is not a str);
\* rich_text is the sequence of the runs' plain_text otherwise
Column(rich_text) == [ok |-> TRUE, rich_text |-> rich_text]
BadColumn == [ok |-> FALSE, rich_text |-> <<>>]

\* the column texts the taxonomy records are drawn from
TxtAbParen == <<"A", "b", " ", "(", "a", "b", "c", ",", " ", "b", ")">>
TxtAb == <<"a", "b">>
TxtB == <<"b">>
TxtRun1 == <<"c", " ", "(", "a", "b", "c", ",">>
TxtRun2 == <<" ", "a", "b", "d", ")">>
TxtNested == <<"a", "(", "b", ",", "(", "c", ")", ")">>
TxtUnbalanced == <<"a", ",", " ", "b", ")">>

TaxonomyColumns ==
    { << Column(<<TxtAbParen>>), Column(<<TxtAbParen>>), Column(<<TxtAb>>) >>,
      << Column(<<TxtRun1, <<>>, TxtRun2>>), BadColumn, Column(<<TxtB>>) >>,
      << Column(<<TxtNested>>), Column(<<TxtUnbalanced>>), Column(<<>>) >> }

TaxonomyNames ==
    { <<Value(<<" ", "R">>), Value(<<"t", "1">>)>>,
      <<NoValue, NoValue>> }

\* the taxonomy records a run may read; readable = FALSE when the page's
\* "properties" cannot be read at all
TaxonomyPages ==
    {[readable |-> TRUE, category |-> n[1], tag |-> n[2], cols |-> c] :
        n \in TaxonomyNames, c \in TaxonomyColumns}
    \cup {[readable |-> FALSE, category |-> NoValue, tag |-> NoValue,
           cols |-> <<BadColumn, BadColumn, BadColumn>>]}

DailyNames ==
    { Value(<<" ", "A", "b">>), Value(<<"a", "b", "c", "d", "e">>),
      Value(<<"C", " ", "(", "a", "b", "c", ",", " ", "a", "b", "d", ")">>),
      Value(<<"b">>), NoValue }

\* the current values of Category Name, Priority and Tag a daily record
\* may hold
DailyCurrent ==
    { <<NoValue, NoValue, NoValue>>,
      <<Value(<<"W">>), NoValue, NoValue>>,
      <<NoValue, Value(Priorities[3]), Value(<<"t", "2">>)>>,
      <<Value(<<"W">>), Value(Priorities[3]), Value(<<"t", "2">>)>> }

\* a daily task record: the task name and the current values of the three
\* fields the script fills in
DailyPage(name, current) ==
    [name |-> name, category |-> current[1], priority |-> current[2],
     tag |-> current[3]]

AllTodaysColumns == {"Task Name", "Start Automation", "Category Name", "Priority", "Tag"}

(***************************************************************************)
(* The mapping build                                                       *)
(***************************************************************************)
\* " ".join([text.strip() for text in runs if text])
RECURSIVE JoinRuns(_)
JoinRuns(rich_text) ==
    LET kept == SelectSeq(rich_text, LAMBDA x : x # <<>>)
    IN  IF kept = <<>> THEN <<>>
        ELSE IF Len(kept) = 1 THEN Strip(kept[1])
        ELSE Strip(kept[1]) \o <<" ">> \o JoinRuns(Tail(kept))

\* a plausible slip: the key is trimmed but not lower-cased
TaskKey_NoLower(task) == Strip(task)

\* line 199: task.lower().strip()
TaskKey(task) == Strip(Lower(task))

\* lines 203-205: the sub-tasks other than the task's own key are written
RECURSIVE MapSubTasks(_, _, _, _)
MapSubTasks(sub_tasks, task_key, stm, entry) ==
    IF sub_tasks = <<>> THEN stm
    ELSE LET sub_task == Head(sub_tasks)
         IN  MapSubTasks(Tail(sub_tasks), task_key,
                         IF sub_task # <<>> /\ sub_task # task_key
                         THEN DictSet(stm, sub_task, entry) ELSE stm,
                         entry)

\* lines 197-205: the loop over task_list; m holds both tables
RECURSIVE MapTasks(_, _, _)
MapTasks(tasks, m, entry) ==
    IF tasks = <<>> THEN m
    ELSE LET task == Head(tasks)
             task_key == TaskKey(task)
         IN  IF task = <<>> THEN MapTasks(Tail(tasks), m, entry)
             ELSE MapTasks(Tail(tasks),
                           [tm |-> DictSet(m.tm, task_key, entry),
                            stm |-> MapSubTasks(extract_sub_tasks(Str(task)),
                                                task_key, m.stm, entry)],
                           entry)

\* lines 189-205: one priority column of a page
MapColumnText(col, m, entry) ==
    IF col.rich_text = <<>> THEN m
    ELSE MapTasks(TopLevelSplit(JoinRuns(col.rich_text)), m, entry)

(***************************************************************************)
(* The update of a daily record                                            *)
(***************************************************************************)
\* a plausible slip: the current value of the field is not looked at
FieldUpdated_IgnoreCurrent(current, value, options, column, names) ==
    value \in options /\ column \in names

\* lines 276-281: a field goes into update_properties when it is unset on
\* the record, the resolved value is one of its options and the column exists
FieldUpdated(current, value, options, column, names) ==
    current = <<>> /\ value \in options /\ column \in names

\* lines 266-281 (and 291-306): update_properties, a function from the
\* fields to update to their new values
UpdateProperties(page, entry, opts, names) ==
    LET current == [f \in {"Category Name", "Priority", "Tag"} |->
                      CASE f = "Category Name" -> GetSelect(page.category, <<>>)
                        [] f = "Priority" -> GetSelect(page.priority, <<>>)
                        [] f = "Tag" -> GetSelect(page.tag, <<>>)]
        value == [f \in {"Category Name", "Priority", "Tag"} |->
                      CASE f = "Category Name" -> entry[1]
                        [] f = "Priority" -> entry[2]
                        [] f = "Tag" -> entry[3]]
        fields == {f \in {"Category Name", "Priority", "Tag"} :
                      FieldUpdated(current[f], value[f], opts[f], f, names)}
    IN  [f \in fields |-> value[f]]

(***************************************************************************)
(* State                                                                   *)
(***************************************************************************)
VARIABLES
    pc,                     \* where the script is: "start", "build", "tags",
                            \* "query", "daily", "done", "failed"
    category_column_names,  \* the property names of the taxonomy schema
    todays_column_names,    \* the property names of the daily schema
    tag_options,            \* the Tag options of the daily database
    taxonomy,               \* the taxonomy pages read so far, in order
    colIdx,                 \* the next priority column of the last page read,
                            \* 0 between pages
    category_name,          \* of the page being mapped
    tag,                    \* of the page being mapped
    unique_tags,
    task_mapping,
    sub_task_mapping,
    daily_n,                \* the daily records gone through
    last,                   \* what the loop did with the last daily record
    tokPc,      \* tokenizer run: "idle", "start", "split", "direct"
    tokIn,      \* the value under test: Str(s) or NonText
    task_list,  \* the top-level split of tokIn
    tokIdx,     \* how many segments of task_list went through extract_sub_tasks
    tokArg,     \* the last argument of extract_sub_tasks
    tokOut      \* its result

tokVars == <<tokPc, tokIn, task_list, tokIdx, tokArg, tokOut>>

runVars ==
    <<pc, category_column_names, todays_column_names, tag_options, taxonomy,
      colIdx, category_name, tag, unique_tags, task_mapping, sub_task_mapping,
      daily_n, last>>

vars == <<runVars, tokVars>>

\* no daily record gone through yet
NoDaily ==
    [page |-> [name |-> NoValue, category |-> NoValue, priority |-> NoValue,
               tag |-> NoValue],
     task_name |-> <<>>, skipped |-> FALSE, matched |-> FALSE,
     res |-> [exact |-> FALSE, fuzzy_called |-> FALSE, partial |-> NoMatch,
              found |-> FALSE, entry |-> <<>>],
     opts |-> [f \in {"Category Name", "Priority", "Tag"} |-> {}],
     update_properties |-> <<>>, update_sent |-> FALSE]

TokIdle ==
    /\ tokPc = "idle"
    /\ tokIn = NonText
    /\ task_list = <<>>
    /\ tokIdx = 0
    /\ tokArg = NonText
    /\ tokOut = <<>>

RunIdle ==
    /\ pc = "start"
    /\ taxonomy = <<>>
    /\ colIdx = 0
    /\ category_name = <<>>
    /\ tag = <<>>
    /\ unique_tags = {}
    /\ task_mapping = <<>>
    /\ sub_task_mapping = <<>>
    /\ daily_n = 0
    /\ last = NoDaily

(***************************************************************************)
(* The script                                                              *)
(***************************************************************************)
\* lines 38-52: both schemas are read before anything else
Init ==
    /\ RunIdle
    /\ category_column_names \in
          {RequiredProps} \cup {RequiredProps \ {prop} : prop \in RequiredProps}
    /\ todays_column_names \in
          {AllTodaysColumns, AllTodaysColumns \ {"Priority"}, AllTodaysColumns \ {"Tag"}}
    /\ tag_options = {<<"t", "2">>}
    /\ TokIdle

\* a plausible slip: any() where the code has all()
SchemaComplete_Any(names) == \E prop \in RequiredProps : prop \in names

\* line 172: all(prop in [names of the schema] for prop in required_props)
SchemaComplete(names) == \A prop \in RequiredProps : prop \in names

\* lines 167-176: the required properties are checked against the schema;
\* the ValueError of line 174 is raised again at 215-217 and ends the run
CheckSchema ==
    /\ pc = "start"
    /\ pc' = IF SchemaComplete(category_column_names) THEN "build" ELSE "failed"
    /\ UNCHANGED <<category_column_names, todays_column_names, tag_options,
                   taxonomy, colIdx, category_name, tag, unique_tags,
                   task_mapping, sub_task_mapping, daily_n, last, tokVars>>

\* lines 177-187: the next page; its category and tag are read, the tag is
\* added to unique_tags.  A page whose properties cannot be read raises in
\* get_property and is skipped by the handler of lines 207-209.
StartPage ==
    /\ pc = "build"
    /\ colIdx = 0
    /\ Len(taxonomy) < MaxPages
    /\ \E page \in TaxonomyPages :
          /\ taxonomy' = Append(taxonomy, page)
          /\ IF page.readable
             THEN /\ category_name' = GetTitle(page.category, <<>>)
                  /\ tag' = GetSelect(page.tag, Unknown)
                  /\ unique_tags' = unique_tags \cup {GetSelect(page.tag, Unknown)}
                  /\ colIdx' = 1
             ELSE UNCHANGED <<category_name, tag, unique_tags, colIdx>>
    /\ UNCHANGED <<pc, category_column_names, todays_column_names, tag_options,
                   task_mapping, sub_task_mapping, daily_n, last, tokVars>>

\* lines 188-205: the next priority column of the page.  A column that
\* cannot be read raises: the handler of lines 207-209 ends the page there.
MapColumn ==
    /\ pc = "build"
    /\ colIdx \in 1..3
    /\ LET col == taxonomy[Len(taxonomy)].cols[colIdx]
           m == MapColumnText(col, [tm |-> task_mapping, stm |-> sub_task_mapping],
                              <<category_name, Priorities[colIdx], tag>>)
       IN  IF col.ok
           THEN /\ task_mapping' = m.tm
                /\ sub_task_mapping' = m.stm
                /\ colIdx' = IF colIdx = 3 THEN 0 ELSE colIdx + 1
           ELSE /\ colIdx' = 0
                /\ UNCHANGED <<task_mapping, sub_task_mapping>>
    /\ UNCHANGED <<pc, category_column_names, todays_column_names, tag_options,
                   taxonomy, category_name, tag, unique_tags, daily_n, last, tokVars>>

\* line 210: the loop over the pages is over
EndBuild ==
    /\ pc = "build"
    /\ colIdx = 0
    /\ pc' = "tags"
    /\ UNCHANGED <<category_column_names, todays_column_names, tag_options,
                   taxonomy, colIdx, category_name, tag, unique_tags,
                   task_mapping, sub_task_mapping, daily_n, last, tokVars>>

\* a plausible slip: the Tag property is looked up but no option is added
clean_and_update_tag_options_NoAdd(valid_options) ==
    IF "Tag" \in todays_column_names
    THEN /\ pc' = "query"
         /\ UNCHANGED tag_options
    ELSE /\ pc' = "failed"
         /\ UNCHANGED tag_options

\* lines 77-108: the options missing from the Tag property are added; the
\* call raises when the daily database has no Tag select property
clean_and_update_tag_options(valid_options) ==
    IF "Tag" \in todays_column_names
    THEN /\ tag_options' = tag_options \cup valid_options
         /\ pc' = "query"
    ELSE /\ pc' = "failed"
         /\ UNCHANGED tag_options

\* line 214
UpdateTagOptions ==
    /\ pc = "tags"
    /\ clean_and_update_tag_options(unique_tags)
    /\ UNCHANGED <<category_column_names, todays_column_names, taxonomy, colIdx,
                   category_name, tag, unique_tags, task_mapping,
                   sub_task_mapping, daily_n, last, tokVars>>

\* lines 219-251: the daily records with Start Automation = Yes are queried
QueryDaily ==
    /\ pc = "query"
    /\ pc' = "daily"
    /\ UNCHANGED <<category_column_names, todays_column_names, tag_options,
                   taxonomy, colIdx, category_name, tag, unique_tags,
                   task_mapping, sub_task_mapping, daily_n, last, tokVars>>

\* the select options the schema read at lines 267-270 may hold: those of
\* the store, or a schema that permits less
OptionChoices ==
    { [f \in {"Category Name", "Priority", "Tag"} |->
          CASE f = "Category Name" -> {<<"R">>, <<"W">>}
            [] f = "Priority" -> {Priorities[1], Priorities[2], Priorities[3]}
            [] f = "Tag" -> tag_options],
      [f \in {"Category Name", "Priority", "Tag"} |->
          CASE f = "Category Name" -> {<<"R">>}
            [] f = "Priority" -> {Priorities[1]}
            [] f = "Tag" -> {}] }

\* a plausible slip: a record without a task name is not skipped
SkipRecord_Never(task_name) == FALSE

\* line 257: if not task_name
SkipRecord(task_name) == task_name = <<>>

\* lines 254-317: one daily record
ProcessDaily ==
    /\ pc = "daily"
    /\ daily_n < MaxDaily
    /\ daily_n' = daily_n + 1
    /\ \E name \in DailyNames :
          LET task_name == GetTitle(name, <<>>)
          IN  \E res \in {Resolve(task_name, task_mapping, sub_task_mapping)},
                 current \in DailyCurrent, opts \in OptionChoices :
                LET page == DailyPage(name, current)
                    update_properties ==
                        IF res.found
                        THEN UpdateProperties(page, res.entry, opts, todays_column_names)
                        ELSE <<>>
                IN  IF SkipRecord(task_name)
                    THEN last' = [NoDaily EXCEPT !.page = page, !.skipped = TRUE]
                    ELSE last' = [page |-> page, task_name |-> task_name,
                                  skipped |-> FALSE, matched |-> res.found,
                                  res |-> res, opts |-> opts,
                                  update_properties |-> update_properties,
                                  update_sent |-> DOMAIN update_properties # {}]
    /\ UNCHANGED <<pc, category_column_names, todays_column_names, tag_options,
                   taxonomy, colIdx, category_name, tag, unique_tags,
                   task_mapping, sub_task_mapping, tokVars>>

\* lines 319-322: the loop is over, the run's time is written
Finish ==
    /\ pc = "daily"
    /\ pc' = "done"
    /\ UNCHANGED <<category_column_names, todays_column_names, tag_options,
                   taxonomy, colIdx, category_name, tag, unique_tags,
                   task_mapping, sub_task_mapping, daily_n, last, tokVars>>

Next ==
    \/ CheckSchema
    \/ StartPage
    \/ MapColumn
    \/ EndBuild
    \/ UpdateTagOptions
    \/ QueryDaily
    \/ ProcessDaily
    \/ Finish

Spec == Init /\ [][Next]_vars

(***************************************************************************)
(* The tokenizer on every string up to MaxLen                              *)
(***************************************************************************)
TokInit ==
    /\ tokPc = "start"
    /\ tokIn \in {Str(s) : s \in Strings(MaxLen)} \cup {NonText}
    /\ task_list = <<>>
    /\ tokIdx = 0
    /\ tokArg = NonText
    /\ tokOut = <<>>
    /\ RunIdle
    /\ category_column_names = RequiredProps
    /\ todays_column_names = AllTodaysColumns
    /\ tag_options = {<<"t", "2">>}

\* lines 195-196: the column text is split into task_list
TokSplit ==
    /\ tokPc = "start"
    /\ tokIn.isstr
    /\ tokPc' = "split"
    /\ task_list' = TopLevelSplit(tokIn.s)
    /\ UNCHANGED <<tokIn, tokIdx, tokArg, tokOut, runVars>>

\* line 201: extract_sub_tasks on the next segment of task_list
TokExtract ==
    /\ tokPc = "split"
    /\ tokIdx < Len(task_list)
    /\ tokIdx' = tokIdx + 1
    /\ tokArg' = Str(task_list[tokIdx + 1])
    /\ tokOut' = extract_sub_tasks(Str(task_list[tokIdx + 1]))
    /\ UNCHANGED <<tokPc, tokIn, task_list, runVars>>

\* extract_sub_tasks called on the value itself
TokDirect ==
    /\ tokPc = "start"
    /\ tokPc' = "direct"
    /\ tokArg' = tokIn
    /\ tokOut' = extract_sub_tasks(tokIn)
    /\ UNCHANGED <<tokIn, task_list, tokIdx, runVars>>

TokNext == TokSplit \/ TokExtract \/ TokDirect

SpecTok == TokInit /\ [][TokNext]_vars

(***************************************************************************)
(* Tokenizer properties                                                    *)
(***************************************************************************)
Count(s, c, lo, hi) == Cardinality({i \in lo..hi : s[i] = c})

\* s[p] is a '(' and s[q] the ')' that closes it: what lies between them is
\* balanced
Matching(s, p, q) ==
    /\ p < q /\ s[p] = "(" /\ s[q] = ")"
    /\ Count(s, "(", p + 1, q - 1) = Count(s, ")", p + 1, q - 1)
    /\ \A k \in (p + 1)..(q - 1) :
          Count(s, "(", p + 1, k) >= Count(s, ")", p + 1, k)

\* the commas of s that do not lie between a '(' and its matching ')'
UnenclosedCommas(s) ==
    {i \in 1..Len(s) :
        /\ s[i] = ","
        /\ ~\E p \in 1..(i - 1), q \in (i + 1)..Len(s) : Matching(s, p, q)}

NoParens(s) == Find(s, "(") = 0 /\ Find(s, ")") = 0

\* every ')' of s closes an earlier '(' and every '(' is closed
Balanced(s) ==
    /\ Count(s, "(", 1, Len(s)) = Count(s, ")", 1, Len(s))
    /\ \A k \in 1..Len(s) : Count(s, "(", 1, k) >= Count(s, ")", 1, k)

\* the split the claim describes: at the unenclosed commas, the pieces
\* trimmed, the empty ones dropped
UnenclosedSplit(s) == StripNonEmpty(SplitFrom(s, UnenclosedCommas(s), 1))

\* C1: the top-level split of a task string treats a comma as a delimiter
\* exactly when the comma does not lie between a '(' and its matching ')';
\* stated here for the strings whose parentheses are balanced (nested ones
\* included), where every '(' has its matching ')'.
C1_SplitAtUnenclosedCommas ==
    (tokPc = "split" /\ Balanced(tokIn.s)) =>
        /\ RegexDelims(tokIn.s) = UnenclosedCommas(tokIn.s)
        /\ task_list = UnenclosedSplit(tokIn.s)

\* C2: for a task string without parentheses the top-level split is the
\* string split on every comma, each segment trimmed, the empty segments
\* removed, in the original order.
C2_PlainSplitWithoutParens ==
    (tokPc = "split" /\ NoParens(tokIn.s)) =>
        task_list = StripNonEmpty(SplitComma(tokIn.s))

C2_Witness ==
    /\ tokPc = "split"
    /\ tokIn.s = <<"a", ",", ",", " ", "A">>
    /\ task_list = << <<"a">>, <<"A">> >>

\* the sub-task list the claim describes for a segment whose first '(' is
\* at p and whose closing ')' is at q
ParenExpected(seg, p, q) ==
    LET pieces == StripNonEmpty(SplitComma(Lower(SubSeq(seg, p + 1, q - 1))))
        before == Strip(Lower(SubSeq(seg, 1, p - 1)))
        after  == Strip(Lower(SubSeq(seg, q + 1, Len(seg))))
        base   == IF before # <<>> THEN before ELSE after
    IN  Dedup(IF base # <<>> /\ ~InSeq(base, pieces)
              THEN Append(pieces, base) ELSE pieces)

\* the first ')' after position p, 0 when there is none
FindAfter(seg, c, p) ==
    LET at == {i \in (p + 1)..Len(seg) : seg[i] = c}
    IN  IF at = {} THEN 0 ELSE SetMin(at)

\* a segment of task_list went through extract_sub_tasks
Extracted == tokPc = "split" /\ tokIdx > 0

\* C3 as stated: for every top-level segment with a '(' and a ')' somewhere
\* after that first '(', extract_sub_tasks returns the pieces between the
\* first '(' and the first ')' after it, then the base, deduplicated.
C3_ParenAnywhereAfterOpen ==
    LET seg == tokArg.s
        p == Find(seg, "(")
        q == FindAfter(seg, ")", p)
    IN  (Extracted /\ p # 0 /\ q # 0) => tokOut = ParenExpected(seg, p, q)

\* C3 amended: for every top-level segment whose first ')' comes after its
\* first '(', extract_sub_tasks returns the non-empty trimmed lower-cased
\* pieces between the two, in order, then the base (the text before the
\* '(', or when that is empty the text after the ')') when it is non-empty
\* and not yet in the list, duplicates removed keeping the first occurrence.
C3_ParenFirstCloseAfterOpen ==
    LET seg == tokArg.s
        p == Find(seg, "(")
        q == Find(seg, ")")
    IN  (Extracted /\ p # 0 /\ q > p) => tokOut = ParenExpected(seg, p, q)

C3_Witness ==
    /\ Extracted
    /\ tokArg.s = <<"A", "(", "b", ",", ")">>
    /\ tokOut = << <<"b">>, <<"a">> >>

\* C4: a non-empty top-level segment with no '(', or no ')', or whose first
\* ')' comes before its first '(' yields the one-element list holding the
\* whole segment trimmed and lower-cased; an empty or non-text input yields
\* the empty list.
C4_NoParenPairKeptWhole ==
    LET seg == tokArg.s
        p == Find(seg, "(")
        q == Find(seg, ")")
    IN  /\ (Extracted /\ (p = 0 \/ q = 0 \/ q < p)) =>
              tokOut = <<Strip(Lower(seg))>>
        /\ (tokPc = "direct" /\ (~tokArg.isstr \/ tokArg.s = <<>>)) =>
              tokOut = <<>>

C4_Witness ==
    /\ Extracted
    /\ tokArg.s = <<")", "A", "(">>
    /\ tokOut = << <<")", "a", "(">> >>

(***************************************************************************)
(* Properties of the mapping build and of the daily loop                   *)
(***************************************************************************)
\* the mapping build is over
BuildFinished == pc \in {"tags", "query", "daily", "done"}

\* the last daily record went through the matcher
Processed == pc \in {"daily", "done"} /\ daily_n > 0 /\ ~last.skipped

\* the matching pairs of parentheses of s that no other matching pair encloses
OutermostPairs(s) ==
    {pq \in (1..Len(s)) \X (1..Len(s)) :
        /\ Matching(s, pq[1], pq[2])
        /\ ~\E p \in 1..(pq[1] - 1), q \in (pq[2] + 1)..Len(s) : Matching(s, p, q)}

\* the comma-separated alternatives written inside the parentheses of s,
\* trimmed and lower-cased
Alternatives(s) ==
    UNION {LET alts == UnenclosedSplit(Lower(SubSeq(s, pq[1] + 1, pq[2] - 1)))
           IN  {alts[i] : i \in 1..Len(alts)} : pq \in OutermostPairs(s)}

\* the top-level task tokens of s, trimmed and lower-cased
TopLevelTokens(s) ==
    LET toks == UnenclosedSplit(Lower(s)) IN {toks[i] : i \in 1..Len(toks)}

\* every field of the page can be read
WellFormed(page) ==
    /\ page.readable
    /\ page.category.has
    /\ page.tag.has
    /\ \A c \in 1..3 : page.cols[c].ok

\* C5: after the mapping build every top-level task token of every priority
\* column of every record is a key of task_mapping and every alternative
\* written inside parentheses is a key of sub_task_mapping, nested and
\* unbalanced parentheses and columns of several runs included; stated here
\* for the records all of whose fields can be read.
C5_EveryTokenResolvable ==
    BuildFinished =>
        \A n \in 1..Len(taxonomy) : WellFormed(taxonomy[n]) =>
            \A c \in 1..3 :
                LET s == JoinRuns(taxonomy[n].cols[c].rich_text)
                IN  /\ TopLevelTokens(s) \subseteq DictKeys(task_mapping)
                    /\ Alternatives(s) \subseteq DictKeys(sub_task_mapping)

\* C6: in every state during and after the mapping build every key of
\* task_mapping and of sub_task_mapping is lower-cased, has no leading or
\* trailing whitespace and is not empty.
C6_KeysNormalized ==
    \A k \in DictKeys(task_mapping) \cup DictKeys(sub_task_mapping) :
        k # <<>> /\ Lower(k) = k /\ Strip(k) = k

C6_Witness ==
    /\ pc = "build"
    /\ colIdx = 2
    /\ <<"a", "b", " ", "(", "a", "b", "c", ",", " ", "b", ")">> \in DictKeys(task_mapping)
    /\ <<"a", "b", "c">> \in DictKeys(sub_task_mapping)

\* C7: a daily task name whose lower-cased form is a key of task_mapping
\* resolves to task_mapping's entry for that key and the fuzzy matcher is
\* not consulted, whatever sub_task_mapping holds.
C7_ExactMatchWins ==
    (Processed /\ Lower(last.task_name) \in DictKeys(task_mapping)) =>
        /\ last.res.found
        /\ last.res.entry = DictGet(task_mapping, Lower(last.task_name))
        /\ ~last.res.fuzzy_called

\* an exact match while a sub-task key of ratio >= 0.8 maps elsewhere
C7_Witness ==
    /\ Processed
    /\ last.res.exact
    /\ \E k \in DictKeys(sub_task_mapping) :
          /\ Ratio(Lower(last.task_name), k)[1] * 5 >= 4 * Ratio(Lower(last.task_name), k)[2]
          /\ DictGet(sub_task_mapping, k) # last.res.entry

\* C8: on the fuzzy path find_closest_match returns a candidate if and only
\* if the largest ratio 2*M/T over the candidates is at least 0.8 (= 4/5).
C8_FuzzyAcceptsIffThreshold ==
    (Processed /\ last.res.fuzzy_called) =>
        (last.res.partial.found <=>
            \E k \in DictKeys(sub_task_mapping) :
                Ratio(Lower(last.task_name), Lower(k))[1] * 5
                    >= 4 * Ratio(Lower(last.task_name), Lower(k))[2])

\* a candidate of ratio exactly 0.8 is accepted
C8_Witness ==
    /\ Processed
    /\ last.res.fuzzy_called
    /\ last.res.partial.found
    /\ Ratio(Lower(last.task_name), last.res.partial.key) = <<4, 5>>

\* the current value of a field of the last daily record
CurrentOf(f) ==
    CASE f = "Category Name" -> GetSelect(last.page.category, <<>>)
      [] f = "Priority" -> GetSelect(last.page.priority, <<>>)
      [] f = "Tag" -> GetSelect(last.page.tag, <<>>)

\* C9: the update of a daily record holds a field among Category Name,
\* Priority and Tag only if the field is unset on the record and the
\* resolved value is one of the field's options; a field that has a value
\* is never in the update, on either path; no update is sent when the
\* update set is empty.
C9_UpdateOnlyUnsetPermitted ==
    Processed =>
        /\ DOMAIN last.update_properties \subseteq {"Category Name", "Priority", "Tag"}
        /\ \A f \in DOMAIN last.update_properties :
              /\ CurrentOf(f) = <<>>
              /\ last.update_properties[f] \in last.opts[f]
        /\ \A f \in {"Category Name", "Priority", "Tag"} :
              CurrentOf(f) # <<>> => f \notin DOMAIN last.update_properties
        /\ last.update_sent <=> DOMAIN last.update_properties # {}

\* a record whose category is set to another value gets its priority only
C9_Witness ==
    /\ Processed
    /\ last.res.found
    /\ last.page.category.has
    /\ last.page.category.text # last.res.entry[1]
    /\ "Priority" \in DOMAIN last.update_properties
    /\ "Category Name" \notin DOMAIN last.update_properties
    /\ last.update_sent

\* the page misses its category name or its tag, or one of its fields
\* cannot be read
Defective(page) == ~WellFormed(page)

\* C10: a taxonomy record with a missing or malformed field is skipped: no
\* step of the build that handles it adds an entry to task_mapping or
\* sub_task_mapping.
C10_DefectivePageAddsNothing ==
    [][(pc = "build" /\ colIdx \in 1..3 /\ Defective(taxonomy[Len(taxonomy)])) =>
          (task_mapping' = task_mapping /\ sub_task_mapping' = sub_task_mapping)]_vars

\* C11: if the taxonomy schema lacks a required property the run fails
\* before any taxonomy record is mapped: no entry is ever added to either
\* table, the Tag options are not updated and no daily record is matched
\* or updated.
C11_SchemaMissingIsFatal ==
    ~(RequiredProps \subseteq category_column_names) =>
        /\ pc \in {"start", "failed"}
        /\ taxonomy = <<>>
        /\ task_mapping = <<>>
        /\ sub_task_mapping = <<>>
        /\ unique_tags = {}
        /\ tag_options = {<<"t", "2">>}
        /\ daily_n = 0
        /\ last = NoDaily

\* the run has failed on a schema without its Low Priority Tasks column
C11_Witness ==
    /\ pc = "failed"
    /\ category_column_names = RequiredProps \ {"Low Priority Tasks"}
    /\ "Tag" \in todays_column_names

\* C12: the mapping build over all taxonomy records and the update of the
\* Tag options are both complete before the first daily record is matched,
\* and from then on (the daily loop and after) task_mapping and
\* sub_task_mapping never change.
C12_BuildBeforeMatchThenFrozen ==
    /\ [](daily_n > 0 =>
            /\ pc \in {"daily", "done"}
            /\ colIdx = 0
            /\ unique_tags \subseteq tag_options)
    /\ [][(pc \in {"daily", "done"}) =>
            (task_mapping' = task_mapping /\ sub_task_mapping' = sub_task_mapping)]_vars

\* a daily record is matched against tables two records filled, after the
\* tags of the records were added to the Tag options
C12_Witness ==
    /\ pc = "daily"
    /\ daily_n = 1
    /\ last.matched
    /\ Len(taxonomy) = 2
    /\ task_mapping # <<>>
    /\ sub_task_mapping # <<>>
    /\ <<"t", "1">> \in unique_tags
    /\ <<"t", "1">> \in tag_options

\* C13: a daily record whose task name is missing or empty is skipped: no
\* exact lookup and no fuzzy match is made for it, no update is sent for
\* it, and the loop goes on to the records after it.
C13_EmptyNameSkipped ==
    (pc \in {"daily", "done"} /\ daily_n > 0
        /\ GetTitle(last.page.name, <<>>) = <<>>) =>
        /\ last.skipped
        /\ ~last.res.exact
        /\ ~last.res.fuzzy_called
        /\ ~last.matched
        /\ last.update_properties = <<>>
        /\ ~last.update_sent
        /\ (pc = "daily" /\ daily_n < MaxDaily) => ENABLED ProcessDaily

\* a record without a task name was skipped while the tables hold keys and
\* the loop has records left
C13_Witness ==
    /\ pc = "daily"
    /\ daily_n = 1
    /\ ~last.page.name.has
    /\ last.skipped
    /\ task_mapping # <<>>
    /\ sub_task_mapping # <<>>
    /\ ENABLED ProcessDaily

\* the (category, priority, tag) tuple column c of a page is mapped with
Entry(page, c) ==
    <<GetTitle(page.category, <<>>), Priorities[c], GetSelect(page.tag, Unknown)>>

\* column c of the page is reached by the build: the page and the columns
\* up to c can be read
Mapped(page, c) == page.readable /\ \A c2 \in 1..c : page.cols[c2].ok

\* the segments the build takes from column c of the page
ColumnTasks(page, c) ==
    IF page.cols[c].rich_text = <<>> THEN <<>>
    ELSE TopLevelSplit(JoinRuns(page.cols[c].rich_text))

\* the sub-task keys the build writes for one segment, in order
SubTaskWrites(task) ==
    SelectSeq(extract_sub_tasks(Str(task)),
              LAMBDA sub_task : sub_task # <<>> /\ sub_task # TaskKey(task))

\* the task_mapping keys column c of the page produces
TaskKeysOf(page, c) ==
    UNION {{TaskKey(tasks[i]) : i \in 1..Len(tasks)} :
           tasks \in {ColumnTasks(page, c)}}

\* the sub_task_mapping keys column c of the page produces
SubKeysOf(page, c) ==
    UNION {UNION {{SubTaskWrites(tasks[i])[j] : j \in 1..Len(SubTaskWrites(tasks[i]))} :
                  i \in 1..Len(tasks)} :
           tasks \in {ColumnTasks(page, c)}}

\* for every <<record, column>> pair the keys it produces (none when the
\* build does not reach the column), KeysOf being TaskKeysOf or SubKeysOf
KeyTable(KeysOf(_, _)) ==
    [a \in (1..Len(taxonomy)) \X (1..3) |->
        IF Mapped(taxonomy[a[1]], a[2]) THEN KeysOf(taxonomy[a[1]], a[2]) ELSE {}]

\* the <<record, column>> pairs that produce key k
Writers(k, table) == {a \in DOMAIN table : k \in table[a]}

\* a comes after b in processing order: records in input order, within a
\* record the columns High, Medium, Low
Later(a, b) == a[1] > b[1] \/ (a[1] = b[1] /\ a[2] > b[2])

\* the last of the pairs W in processing order
LastWriter(W) == CHOOSE a \in W : \A b \in W : ~Later(b, a)

\* every key of the dictionary d holds the tuple of its last writer
HoldsLastWrite(d, table) ==
    \A i \in 1..Len(d) :
        \A W \in {Writers(d[i].key, table)} :
            /\ W # {}
            /\ \A a \in {LastWriter(W)} : d[i].val = Entry(taxonomy[a[1]], a[2])

\* the build is over and the daily loop has not begun; from here on the
\* tables and the records read stay as they are
BuildJustFinished == pc \in {"tags", "query"}

\* C14: after the build each key of task_mapping and of sub_task_mapping
\* holds the (category, priority, tag) tuple of its last occurrence in
\* processing order: records in input order, within a record the columns
\* High, Medium, Low.
C14_LastWriteWins ==
    BuildJustFinished =>
        /\ \A table \in {KeyTable(TaskKeysOf)} : HoldsLastWrite(task_mapping, table)
        /\ \A table \in {KeyTable(SubKeysOf)} : HoldsLastWrite(sub_task_mapping, table)

\* a task key two columns of one record produce, and a sub-task key two
\* records produce with different tuples
C14_Witness ==
    /\ BuildJustFinished
    /\ \E table \in {KeyTable(TaskKeysOf)} :
          \E k \in DictKeys(task_mapping) :
              \E a, b \in Writers(k, table) : a[1] = b[1] /\ a[2] # b[2]
    /\ \E table \in {KeyTable(SubKeysOf)} :
          \E k \in DictKeys(sub_task_mapping) :
              \E a, b \in Writers(k, table) :
                  /\ a[1] # b[1]
                  /\ Entry(taxonomy[a[1]], a[2]) # Entry(taxonomy[b[1]], b[2])

RECURSIVE Flatten(_)
Flatten(seqs) == IF seqs = <<>> THEN <<>> ELSE Head(seqs) \o Flatten(Tail(seqs))

\* the sub-task keys column c of the page writes, in the order of writing
ColumnWrites(page, c) ==
    IF ~Mapped(page, c) THEN <<>>
    ELSE Flatten([i \in 1..Len(ColumnTasks(page, c)) |->
                     SubTaskWrites(ColumnTasks(page, c)[i])])

\* every write to sub_task_mapping of the build, in order
AllWrites ==
    Flatten([n \in 1..Len(taxonomy) |->
                ColumnWrites(taxonomy[n], 1) \o ColumnWrites(taxonomy[n], 2)
                    \o ColumnWrites(taxonomy[n], 3)])

\* the ratio of the last daily record's name against key k
LastRatio(k) == Ratio(Lower(last.task_name), Lower(k))

\* C15: when several sub-task keys attain the largest ratio,
\* find_closest_match returns the first of them in the iteration order of
\* sub_task_mapping, which is the order in which the keys were first
\* written during the build: a key overwritten later keeps its position.
C15_TieGoesToFirstInserted ==
    /\ BuildJustFinished => KeySeq(sub_task_mapping) = Dedup(AllWrites)
    /\ (Processed /\ last.res.fuzzy_called /\ last.res.partial.found) =>
          \E ratios \in {[i \in 1..Len(sub_task_mapping) |->
                             LastRatio(sub_task_mapping[i].key)]} :
              \E i \in 1..Len(sub_task_mapping) :
                  /\ sub_task_mapping[i].key = last.res.partial.key
                  /\ \A j \in 1..Len(sub_task_mapping) :
                        ~RatioLess(ratios[i], ratios[j])
                  /\ \A j \in 1..(i - 1) : RatioLess(ratios[j], ratios[i])

\* the key returned was written twice during the build and a key after it
\* has the same ratio
C15_Witness ==
    /\ Processed
    /\ last.res.fuzzy_called
    /\ last.res.partial.found
    /\ Len(SelectSeq(AllWrites, LAMBDA k : k = last.res.partial.key)) > 1
    /\ \E i, j \in 1..Len(sub_task_mapping) :
          /\ i < j
          /\ sub_task_mapping[i].key = last.res.partial.key
          /\ LastRatio(sub_task_mapping[j].key) = LastRatio(sub_task_mapping[i].key)

=============================================================================
